---- MODULE Spec2Model ----
(***************************************************************************)
(* A state-machine model of uber/models.py: the startup initialize_db      *)
(* retry loop, MagModel.apply form binding, the group badge assignment,    *)
(* and the session flush listeners with the badge numbering they guard.    *)
(***************************************************************************)
EXTENDS Integers, Sequences, FiniteSets, TLC

VARIABLES
    \* ---- startup: initialize_db() (models.py 1926-1953)
    ipc,                  \* position of the startup thread in the retry loop
    num_tries_remaining,  \* the local counter of initialize_db
    stopped,              \* the sideboard "stopped" event
    attempts,             \* calls of Session.initialize_db made so far (saturating)
    lastExc               \* exception of the most recent failed attempt

startupVars == <<ipc, num_tries_remaining, stopped, attempts, lastExc>>

VARIABLES
    \* ---- one group and SessionMixin.assign_badges (models.py 695-718)
    gAttendees,   \* group.attendees: a list of attendee records
    gDeleted,     \* how many attendees session.delete() holds, not yet flushed
    gClock,       \* the database clock behind server_default=utcnow()
    gLast         \* the last assign_badges call: arguments, result, state before

groupVars == <<gAttendees, gDeleted, gClock, gLast>>

VARIABLES
    \* ---- one model instance bound to a form: the generated session getter
    \* and MagModel.apply (models.py 339-375, 1864-1882)
    aInst,     \* the instance's column values after the call
    aBefore,   \* the column values the instance had before apply
    aCall      \* the arguments of the call and whether it raised

applyVars == <<aInst, aBefore, aCall>>

VARIABLES
    \* ---- the attendee table, the request threads' sessions, BADGE_LOCK and
    \* the flush listeners (models.py 527-615, 1047-1130, 1777-1923)
    conf,        \* the configuration c.* of this run, and its request threads
    db,          \* the attendee table: id -> row, committed
    sess,        \* sess[t]: the session of the request thread t runs
    fpc,         \* fpc[t]: where thread t is in a flush
    tracked,     \* tracked[t]: the Tracking entries the flush of t has added
    flushes,     \* how many flushes have written to the table
    lockOwner,   \* the thread that holds c.BADGE_LOCK, or NoThread
    lockCount,   \* how many times the owner has acquired it
    last         \* the last operation: thread, arguments, result

flushVars == <<conf, db, sess, fpc, tracked, flushes, lockOwner, lockCount, last>>

VARIABLES
    \* ---- the admin accounts and SessionMixin.insert_test_admin_account
    \* (models.py 747-773)
    tAttendees,  \* the attendee rows of the table, by email
    tAccounts,   \* the admin_account rows of the table
    tNew,        \* tNew[t]: the pending instances of the session of thread t
    tMade,       \* how many instances the calls have constructed
    tLast        \* the last call: thread, result, the session before it

adminVars == <<tAttendees, tAccounts, tNew, tMade, tLast>>

vars == <<startupVars, groupVars, applyVars, flushVars, adminVars>>

\* What the operations of one part of the program leave alone.
exceptStartup == <<groupVars, applyVars, flushVars, adminVars>>
exceptGroup == <<startupVars, applyVars, flushVars, adminVars>>
exceptApply == <<startupVars, groupVars, flushVars, adminVars>>
exceptFlush == <<startupVars, groupVars, applyVars, adminVars>>
exceptAdmin == <<startupVars, groupVars, applyVars, flushVars>>

Min(a, b) == IF a < b THEN a ELSE b
Max(a, b) == IF a > b THEN a ELSE b


(***************************************************************************)
(* Group.floating, delete_from_group, assign_badges                        *)
(***************************************************************************)
\* The most attendees the modelled group holds, and the last value of the
\* database clock.
MaxBadges == 3
MaxClock == 2


NoCall == [op |-> "none"]

\* An Attendee as assign_badges sees it: Attendee(badge_type=..., ribbon=...,
\* paid=c.PAID_BY_GROUP).  registered is <<>> for None (the row was never
\* inserted: the column has only a server default) and <<t>> for the
\* timestamp t.  Attendees are told apart by their place in the list, which
\* stands for the id MagModel.__eq__ compares.
NewGroupAttendee ==
    [unassigned |-> TRUE, paid |-> "PAID_BY_GROUP", registered |-> <<>>]

\* instance_state(self).persistent: the row exists.
Persistent(a) == a.registered # <<>>

\* Group.badges: len(self.attendees)
GroupBadges(attendees) == Len(attendees)

\* Attendee.is_unassigned: not self.first_name
IsUnassigned(a) == a.unassigned

\* The test of Group.floating: a.is_unassigned and a.paid == c.PAID_BY_GROUP
IsFloatingAny(a) == IsUnassigned(a)
IsFloating(a) == IsUnassigned(a) /\ a.paid = "PAID_BY_GROUP"

\* Group.floating: [a for a in self.attendees if ...], as the list of their
\* places in group.attendees.
RECURSIVE FloatingFrom(_, _)
FloatingFrom(attendees, i) ==
    IF i > Len(attendees) THEN <<>>
    ELSE (IF IsFloating(attendees[i]) THEN <<i>> ELSE <<>>) \o FloatingFrom(attendees, i + 1)

Floating(attendees) == FloatingFrom(attendees, 1)

SeqRange(s) == {s[i] : i \in 1..Len(s)}

\* sorted(..., key=lambda a: a.registered, reverse=True) compares the keys
\* of a list of two or more; None does not compare in Python 3.
SortRaises(attendees, places) ==
    Len(places) >= 2 /\ \E i \in 1..Len(places) : attendees[places[i]].registered = <<>>

\* The stable descending sort: the first of the elements with the largest
\* key comes first.
RECURSIVE SortedByRegisteredAsc(_, _)
SortedByRegisteredAsc(attendees, places) ==
    IF Len(places) <= 1 THEN places
    ELSE LET Key(k) == attendees[places[k]].registered[1]
             i == CHOOSE k \in 1..Len(places) :
                      /\ \A j \in 1..Len(places) : Key(j) >= Key(k)
                      /\ \A j \in 1..(k - 1) : Key(j) > Key(k)
         IN  <<places[i]>> \o SortedByRegisteredAsc(attendees,
                                  SubSeq(places, 1, i - 1) \o SubSeq(places, i + 1, Len(places)))

RECURSIVE SortedByRegisteredDesc(_, _)
SortedByRegisteredDesc(attendees, places) ==
    IF Len(places) <= 1 THEN places
    ELSE LET Key(k) == attendees[places[k]].registered[1]
             i == CHOOSE k \in 1..Len(places) :
                      /\ \A j \in 1..Len(places) : Key(j) <= Key(k)
                      /\ \A j \in 1..(k - 1) : Key(j) < Key(k)
         IN  <<places[i]>> \o SortedByRegisteredDesc(attendees,
                                  SubSeq(places, 1, i - 1) \o SubSeq(places, i + 1, Len(places)))

\* The list without the attendees at the places of `gone`.
RECURSIVE WithoutPlaces(_, _, _)
WithoutPlaces(attendees, i, gone) ==
    IF i > Len(attendees) THEN <<>>
    ELSE (IF i \in gone THEN <<>> ELSE <<attendees[i]>>) \o WithoutPlaces(attendees, i + 1, gone)

\* delete_from_group for each attendee of `doomed` in turn: self.delete(attendee),
\* which raises InvalidRequestError for an instance that was never persisted,
\* then group.attendees.remove(attendee).  `gone` are the places deleted so far.
RECURSIVE DeleteFromGroupEach(_, _, _)
DeleteFromGroupEach(attendees, doomed, gone) ==
    IF doomed = <<>> THEN [gone |-> gone, result |-> "None"]
    ELSE IF ~Persistent(attendees[Head(doomed)])
         THEN [gone |-> gone, result |-> "InvalidRequestError"]
         ELSE DeleteFromGroupEach(attendees, Tail(doomed), gone \cup {Head(doomed)})

\* for i in range(diff): group.attendees.append(Attendee(...))
RECURSIVE AppendNew(_, _)
AppendNew(attendees, k) ==
    IF k = 0 THEN attendees
    ELSE AppendNew(Append(attendees, NewGroupAttendee), k - 1)

TooFewFloating == "You cannot reduce the number of badges for a group to below the number of assigned badges"

\* assign_badges(group, new_badge_count): the places of the attendees it
\* deleted, the new group.attendees and the result: a message, "None" for a
\* return without one, or the exception raised.
AssignBadges(attendees, new_badge_count) ==
    LET diff == new_badge_count - GroupBadges(attendees)
        absdiff == IF diff < 0 THEN -diff ELSE diff
        floating == Floating(attendees)
        Unchanged(result) == [attendees |-> attendees, gone |-> {}, result |-> result]
    IN  \* sorted_unassigned = sorted(group.floating, ...) runs first
        IF SortRaises(attendees, floating) THEN Unchanged("TypeError")
        ELSE IF diff > 0
        THEN [attendees |-> AppendNew(attendees, diff), gone |-> {}, result |-> "None"]
        ELSE IF diff < 0
        THEN IF Len(floating) < absdiff
             THEN Unchanged(TooFewFloating)
             ELSE LET sorted_unassigned == SortedByRegisteredDesc(attendees, floating)
                      d == DeleteFromGroupEach(attendees, SubSeq(sorted_unassigned, 1, absdiff), {})
                  IN  [attendees |-> WithoutPlaces(attendees, 1, d.gone),
                       gone |-> d.gone, result |-> d.result]
        ELSE Unchanged("None")

GroupOnly ==
    /\ gAttendees = <<>>
    /\ gDeleted = 0
    /\ gClock = 1
    /\ gLast = NoCall

\* session.assign_badges(group, n)
GroupAssignBadges ==
    \E n \in 0..MaxBadges :
        LET r == AssignBadges(gAttendees, n)
        IN  /\ gAttendees' = r.attendees
            /\ gDeleted' = gDeleted + Cardinality(r.gone)
            /\ gLast' = [op |-> "assign_badges", n |-> n, result |-> r.result,
                         before |-> gAttendees, gone |-> r.gone]
            /\ UNCHANGED gClock
            /\ UNCHANGED exceptGroup

\* session.commit(): the pending attendees are inserted (registered takes the
\* server default) and the deleted ones are gone.
GroupCommit ==
    /\ \/ gDeleted # 0
       \/ \E i \in 1..Len(gAttendees) : ~Persistent(gAttendees[i])
    /\ gAttendees' = [i \in 1..Len(gAttendees) |->
                        IF Persistent(gAttendees[i]) THEN gAttendees[i]
                        ELSE [gAttendees[i] EXCEPT !.registered = <<gClock>>]]
    /\ gDeleted' = 0
    /\ gClock' = Min(gClock + 1, MaxClock)
    /\ gLast' = NoCall
    /\ UNCHANGED exceptGroup

\* A group member claims one of the unassigned badges: first_name is set.
GroupClaimBadge ==
    \E i \in 1..Len(gAttendees) :
        /\ gAttendees[i].unassigned
        /\ gAttendees' = [gAttendees EXCEPT ![i].unassigned = FALSE]
        /\ gLast' = NoCall
        /\ UNCHANGED <<gDeleted, gClock>>
        /\ UNCHANGED exceptGroup

\* An admin marks an unclaimed badge as paid for separately.
GroupSetPaid ==
    \E i \in 1..Len(gAttendees) :
        /\ gAttendees[i].paid = "PAID_BY_GROUP"
        /\ gAttendees[i].unassigned
        /\ gAttendees' = [gAttendees EXCEPT ![i].paid = "HAS_PAID"]
        /\ gLast' = NoCall
        /\ UNCHANGED <<gDeleted, gClock>>
        /\ UNCHANGED exceptGroup

GroupNext ==
    \/ GroupAssignBadges
    \/ GroupCommit
    \/ GroupClaimBadge
    \/ GroupSetPaid


(***************************************************************************)
(* Column, MagModel.unrestricted, MagModel.apply                           *)
(***************************************************************************)
\* The most keys of a params dict the model enumerates.
MaxParamKeys == 2

\* Python values: a type tag and the value's text.
PyStr(s) == [t |-> "str", v |-> s]
PyInt(s) == [t |-> "int", v |-> s]
PyBool(b) == [t |-> "bool", v |-> IF b THEN "True" ELSE "False"]
PyList(s) == [t |-> "list", v |-> s]
PyNone == [t |-> "NoneType", v |-> "None"]
PyDatetime(s) == [t |-> "datetime", v |-> s]

\* Columns of Attendee, one of each kind apply tells apart, in table order
\* (MagModel.id first), with the column type and the admin_only argument.
ColumnOrder ==
    <<"id", "first_name", "interests", "badge_num", "checked_in",
      "amount_extra", "staffing", "trusted">>
Columns == {ColumnOrder[i] : i \in 1..Len(ColumnOrder)}
ColType ==
    [c \in Columns |->
        CASE c = "id" -> "UUID"
          [] c = "first_name" -> "UnicodeText"
          [] c = "interests" -> "MultiChoice"
          [] c = "badge_num" -> "Integer"
          [] c = "checked_in" -> "UTCDateTime"
          [] c = "amount_extra" -> "Choice"
          [] c = "staffing" -> "Boolean"
          [] c = "trusted" -> "Boolean"]
AdminOnlyArg == [c \in Columns |-> c \in {"badge_num", "trusted"}]

\* Column(): col.admin_only = admin_only or args[0] in [UUID, UTCDateTime]
AdminOnlyByArgAlone(c) == AdminOnlyArg[c]
AdminOnly(c) == AdminOnlyArg[c] \/ ColType[c] \in {"UUID", "UTCDateTime"}

\* MagModel.unrestricted
UnrestrictedEverything == Columns
Unrestricted == {c \in Columns : ~AdminOnly(c)}

\* MagModel.all_bools, all_checkgroups, regform_bools, regform_checkgroups
AllBools == {c \in Columns : ColType[c] = "Boolean"}
AllCheckgroups == {c \in Columns : ColType[c] = "MultiChoice"}
RegformBools == {c \in AllBools : c \in Unrestricted}
RegformCheckgroups == {c \in AllCheckgroups : c \in Unrestricted}

\* The values a form posts.
ParamVals ==
    {PyStr(""), PyStr(" 1 "), PyStr("0"), PyStr("x"), PyBool(TRUE), PyList("1,2")}

\* str.strip()
Strip(s) == IF s = " 1 " THEN "1" ELSE s

\* The first step of apply: ','.join(map(str, list)), the bool itself, or
\* str(value).strip()
FormValue(p) ==
    CASE p.t = "list" -> PyStr(p.v)
      [] p.t = "bool" -> p
      [] OTHER -> PyStr(Strip(p.v))

\* float(value) succeeds
FloatOk(value) == value.t = "bool" \/ (value.t = "str" /\ value.v \in {"0", "1"})
\* int(float(value))
IntOfFloat(value) ==
    IF value.t = "bool" THEN PyInt(IF value.v = "True" THEN "1" ELSE "0") ELSE PyInt(value.v)

\* The try block of apply: the conversion by column type; a conversion
\* that raises leaves the value as it was (except: pass).  None of the
\* modelled values parses under c.TIMESTAMP_FORMAT.
Coerce(type, value) ==
    CASE type = "Choice" /\ value = PyStr("") -> PyNone
      [] type \in {"Choice", "Integer"} /\ ~(type = "Choice" /\ value = PyStr("")) ->
            IF FloatOk(value) THEN IntOfFloat(value) ELSE value
      [] OTHER -> value

\* int(params[name]) raises ValueError or TypeError
IntRaises(p) == ~(p.t = "bool" \/ (p.t = "str" /\ p.v \in {"0", " 1 "}))
\* bool(int(params[name]))
BoolOfInt(p) == PyBool(~(p.t = "str" /\ p.v = "0"))

\* The first loop of apply over self.__table__.columns, from column i on.
ColumnIsSetNoIdTest(c, params, restricted) ==
    /\ (~restricted \/ c \in Unrestricted)
    /\ c \in DOMAIN params
ColumnIsSet(c, params, restricted) ==
    /\ (~restricted \/ c \in Unrestricted)
    /\ c \in DOMAIN params
    /\ c # "id"

RECURSIVE ApplyColumns(_, _, _, _)
ApplyColumns(inst, params, restricted, i) ==
    IF i > Len(ColumnOrder) THEN inst
    ELSE LET c == ColumnOrder[i]
         IN  IF ColumnIsSet(c, params, restricted)
             THEN ApplyColumns([inst EXCEPT ![c] = Coerce(ColType[c], FormValue(params[c]))],
                               params, restricted, i + 1)
             ELSE ApplyColumns(inst, params, restricted, i + 1)

\* The second loop, run for a POST: the checkboxes and checkbox groups.  An
\* unchecked checkbox is absent from params; int() of a value that is no
\* number raises out of apply.
RECURSIVE ApplyPost(_, _, _, _, _)
ApplyPost(inst, params, bools, checkgroups, i) ==
    IF i > Len(ColumnOrder) THEN [inst |-> inst, raised |-> FALSE]
    ELSE LET c == ColumnOrder[i]
         IN  IF c \in bools
             THEN IF c \notin DOMAIN params
                  THEN ApplyPost([inst EXCEPT ![c] = PyBool(FALSE)], params, bools, checkgroups, i + 1)
                  ELSE IF IntRaises(params[c])
                  THEN [inst |-> inst, raised |-> TRUE]
                  ELSE ApplyPost([inst EXCEPT ![c] = BoolOfInt(params[c])], params, bools, checkgroups, i + 1)
             ELSE IF c \in checkgroups /\ c \notin DOMAIN params
             THEN ApplyPost([inst EXCEPT ![c] = PyStr("")], params, bools, checkgroups, i + 1)
             ELSE ApplyPost(inst, params, bools, checkgroups, i + 1)

\* MagModel.apply(params, bools=..., checkgroups=..., restricted=...) under
\* cherrypy.request.method == method
MagModelApply(inst, params, bools, checkgroups, restricted, method) ==
    LET bools1 == IF restricted THEN RegformBools ELSE bools
        \* checkgroups = self.regform_checkgroups if restricted else bools
        checkgroups1 == IF restricted THEN RegformCheckgroups ELSE bools
        first == ApplyColumns(inst, params, restricted, 1)
    IN  IF method = "POST"
        THEN ApplyPost(first, params, bools1, checkgroups1, 1)
        ELSE [inst |-> first, raised |-> FALSE]

\* The instances a getter applies params to: model() with the column
\* defaults, and a row an admin has worked on.
NewInstance ==
    [c \in Columns |->
        CASE c = "id" -> PyStr("uuid-new")
          [] c = "first_name" -> PyStr("")
          [] c = "interests" -> PyStr("")
          [] c = "badge_num" -> PyInt("0")
          [] c = "checked_in" -> PyNone
          [] c = "amount_extra" -> PyInt("0")
          [] c = "staffing" -> PyBool(TRUE)
          [] c = "trusted" -> PyBool(FALSE)]
StoredInstance ==
    [c \in Columns |->
        CASE c = "id" -> PyStr("uuid-stored")
          [] c = "first_name" -> PyStr("Ann")
          [] c = "interests" -> PyStr("2")
          [] c = "badge_num" -> PyInt("7")
          [] c = "checked_in" -> PyDatetime("at-the-door")
          [] c = "amount_extra" -> PyInt("1")
          [] c = "staffing" -> PyBool(TRUE)
          [] c = "trusted" -> PyBool(TRUE)]
ApplyInstances == {NewInstance, StoredInstance}

\* The params dicts of at most MaxParamKeys keys.
ParamDicts ==
    UNION {[keys -> ParamVals] : keys \in {k \in SUBSET Columns : Cardinality(k) <= MaxParamKeys}}

ApplyOnly ==
    /\ aInst = NewInstance
    /\ aBefore = NewInstance
    /\ aCall = NoCall

\* session.<model>(params, bools=..., checkgroups=..., restricted=...): the
\* instance is made or loaded and params are applied to it.  bools names
\* Boolean columns; it is read only when restricted is false.
GetterApply ==
    /\ aCall = NoCall
    /\ \E inst \in ApplyInstances, params \in ParamDicts, restricted \in BOOLEAN,
       method \in {"GET", "POST"}, bools \in SUBSET AllBools :
          /\ restricted => bools = {}
          /\ LET r == MagModelApply(inst, params, bools, {}, restricted, method)
             IN  /\ aInst' = r.inst
                 /\ aBefore' = inst
                 /\ aCall' = [op |-> "apply", params |-> params, bools |-> bools,
                              restricted |-> restricted, method |-> method,
                              raised |-> r.raised]
    /\ UNCHANGED exceptApply

\* The request is over; the next one binds its own instance.
ApplyRequestEnd ==
    /\ aCall # NoCall
    /\ aInst' = NewInstance
    /\ aBefore' = NewInstance
    /\ aCall' = NoCall
    /\ UNCHANGED exceptApply

ApplyNext ==
    \/ GetterApply
    \/ ApplyRequestEnd

(***************************************************************************)
(* initialize_db                                                           *)
(***************************************************************************)
\* num_tries_remaining = 10
InitialTries == 10
\* The attempt counter of the model saturates here, so that a loop that
\* never ends stays a loop of finitely many states.
MaxAttempts == 12

\* What one call of Session.initialize_db(modify_tables=True) can do.
AttemptOutcomes == {"ok", "KeyboardInterrupt", "Exception"}

StartupOnly ==
    /\ ipc = "while"
    /\ num_tries_remaining = InitialTries
    /\ stopped = FALSE
    /\ attempts = 0
    /\ lastExc = "none"

\* while not stopped.is_set():
LoopTest ==
    /\ ipc = "while"
    /\ ipc' = IF stopped THEN "returned" ELSE "try"
    /\ UNCHANGED <<num_tries_remaining, stopped, attempts, lastExc>>
    /\ UNCHANGED exceptStartup

\* try: Session.initialize_db(modify_tables=True), with its three handlers.
AttemptResult(outcome) ==
    CASE outcome = "ok" ->
            \* else: break
            [pc |-> "returned", tries |-> num_tries_remaining, exc |-> "none"]
      [] outcome = "KeyboardInterrupt" ->
            \* except KeyboardInterrupt: log.critical(...)  -- and the loop goes on
            [pc |-> "while", tries |-> num_tries_remaining, exc |-> outcome]
      [] OTHER ->
            \* except: num_tries_remaining -= 1; raise when it reached 0
            [pc |-> IF num_tries_remaining - 1 = 0 THEN "raised" ELSE "wait",
             tries |-> num_tries_remaining - 1, exc |-> outcome]

Attempt ==
    /\ ipc = "try"
    /\ \E outcome \in AttemptOutcomes :
          LET r == AttemptResult(outcome) IN
          /\ ipc' = r.pc
          /\ num_tries_remaining' = r.tries
          /\ lastExc' = r.exc
    /\ attempts' = Min(attempts + 1, MaxAttempts)
    /\ UNCHANGED stopped
    /\ UNCHANGED exceptStartup

\* stopped.wait(5): returns after the timeout or when the event is set; a
\* KeyboardInterrupt delivered here is raised inside the except clause and
\* leaves initialize_db.
Wait ==
    /\ ipc = "wait"
    /\ \E interrupted \in BOOLEAN :
          /\ ipc' = IF interrupted THEN "raised" ELSE "while"
          /\ lastExc' = IF interrupted THEN "KeyboardInterrupt" ELSE lastExc
    /\ UNCHANGED <<num_tries_remaining, stopped, attempts>>
    /\ UNCHANGED exceptStartup

\* Another thread shuts the server down: stopped.set()
SetStopped ==
    /\ ~stopped
    /\ ipc \in {"while", "try", "wait"}
    /\ stopped' = TRUE
    /\ UNCHANGED <<ipc, num_tries_remaining, attempts, lastExc>>
    /\ UNCHANGED exceptStartup

StartupStep == LoopTest \/ Attempt \/ Wait

StartupNext ==
    \/ LoopTest
    \/ Attempt
    \/ Wait
    \/ SetStopped

(***************************************************************************)
(* The attendee table, the sessions of the request threads, badge numbers  *)
(***************************************************************************)
\* Each badge type owns RangeLen consecutive badge numbers.
RangeLen == 2
\* A request sets, adds or deletes at most this much before it flushes;
\* where two threads run, each request does one thing.
MaxOps == 2
\* The owner of BADGE_LOCK is followed up to this many acquisitions.
MaxLockDepth == 2
\* A run is followed until this many flushes have written to the table.
MaxFlushes == 1

Threads == {"t1", "t2"}
NoThread == "none"
AttendeeIds == {"a1", "a2", "a3"}
\* One pending instance of the Email class
EmailIds == {"e1"}
InstanceIds == AttendeeIds \cup EmailIds
ClassOf(id) == IF id \in EmailIds THEN "Email" ELSE "Attendee"

\* c.BADGE_OPTS, in the order of their ranges; c.PREASSIGNED_BADGE_TYPES
BadgeTypes == <<"STAFF_BADGE", "SUPPORTER_BADGE", "ATTENDEE_BADGE">>
BadgeTypeSet == {BadgeTypes[i] : i \in 1..Len(BadgeTypes)}
PREASSIGNED_BADGE_TYPES == {"STAFF_BADGE", "SUPPORTER_BADGE"}
TypeIndex(badge_type) == CHOOSE i \in 1..Len(BadgeTypes) : BadgeTypes[i] = badge_type
\* c.BADGE_RANGES[badge_type] = (lo, hi)
BADGE_RANGES(badge_type) ==
    [lo |-> (TypeIndex(badge_type) - 1) * RangeLen + 1, hi |-> TypeIndex(badge_type) * RangeLen]
MAX_BADGE == Len(BadgeTypes) * RangeLen
\* No badge number of the model goes beyond this.
NumCap == MAX_BADGE + 1

\* The columns of Attendee the badge code reads and writes.  The columns
\* left out keep their defaults: first_name is set, ribbon is NO_RIBBON.
AttendeeColumns == <<"badge_type", "badge_num", "paid", "staffing", "checked_in", "amount_extra", "interests">>
Absent ==
    [present |-> FALSE, badge_type |-> "ATTENDEE_BADGE", badge_num |-> 0, paid |-> "NOT_PAID",
     staffing |-> FALSE, checked_in |-> FALSE, amount_extra |-> "0", interests |-> ""]
NewAttendee(badge_type, paid) ==
    [Absent EXCEPT !.present = TRUE, !.badge_type = badge_type, !.paid = paid]
NoObj == [loaded |-> FALSE]

\* A session: the identity map with the loaded values, what each instance
\* held when it was loaded, session.new, session.deleted, and the persistent
\* instances with an attribute set since.
EmptySession ==
    [obj |-> [i \in AttendeeIds |-> NoObj], orig |-> [i \in AttendeeIds |-> NoObj],
     new |-> {}, del |-> {}, mod |-> {}, ops |-> 0]

\* session.dirty: the modified persistent instances that are not deleted
Dirty(S) == S.mod \ S.del

MaxOf(nums) == CHOOSE n \in nums : \A m \in nums : m <= n

\* session.query(Attendee)...: the instance of a row, loaded when the
\* session did not hold it yet
Load(S, id) ==
    IF S.obj[id] # NoObj THEN S
    ELSE [S EXCEPT !.obj[id] = db[id], !.orig[id] = db[id]]

\* setattr(instance, column, value)
SetColumn(S, id, column, value) ==
    [S EXCEPT !.obj[id] = [@ EXCEPT ![column] = value],
              !.mod = IF id \in S.new THEN @ ELSE @ \cup {id}]

\* instance.orig_value_of(column)
OrigValueOf(S, id, column) ==
    IF S.orig[id] # NoObj THEN S.orig[id][column] ELSE S.obj[id][column]

\* uber.badge_funcs.check_range(badge_num, badge_type): a message when a
\* given badge number lies outside the range of the type
OutOfRange == "badge numbers must fall within the range"
CheckRange(badge_num, badge_type) ==
    IF badge_num # 0 /\ ~(BADGE_RANGES(badge_type).lo <= badge_num /\ badge_num <= BADGE_RANGES(badge_type).hi)
    THEN OutOfRange ELSE "None"

\* Session.next_badge_num(badge_type, old_badge_num)
NextIncrementsAlways(top, old_badge_num) == top + 1
NextAfterHighest(top, old_badge_num) ==
    IF old_badge_num # 0 /\ top = old_badge_num THEN top ELSE top + 1

NextBadgeNum(S, badge_type, old_badge_num) ==
    IF badge_type \notin PREASSIGNED_BADGE_TYPES THEN 0
    ELSE
        LET sametype == {i \in AttendeeIds :
                            /\ db[i].present
                            /\ db[i].badge_type = badge_type
                            /\ db[i].badge_num >= BADGE_RANGES(badge_type).lo
                            /\ db[i].badge_num <= BADGE_RANGES(badge_type).hi}
            next == IF sametype # {}
                    THEN NextAfterHighest(MaxOf({db[i].badge_num : i \in sametype}), old_badge_num)
                    ELSE BADGE_RANGES(badge_type).lo
            inSession == {i \in (S.new \cup Dirty(S)) \cap AttendeeIds : S.obj[i].badge_type = badge_type}
        IN  MaxOf({next} \cup {1 + S.obj[i].badge_num : i \in inSession})

\* Session.shift_badges(badge_type, badge_num, until=until, down/up): the
\* query filters on the rows of the table, the loop changes the instances.
ShiftBadges(S, badge_type, badge_num, until, shift) ==
    LET last_num == IF until = 0 THEN MAX_BADGE ELSE until
        hit == {i \in AttendeeIds :
                   /\ db[i].present
                   /\ db[i].badge_type = badge_type
                   /\ db[i].badge_num >= badge_num
                   /\ db[i].badge_num <= last_num
                   /\ db[i].badge_num # 0}
        cur(i) == IF S.obj[i] # NoObj THEN S.obj[i] ELSE db[i]
    IN  [S EXCEPT !.obj = [i \in AttendeeIds |->
                              IF i \in hit THEN [cur(i) EXCEPT !.badge_num = @ + shift] ELSE S.obj[i]],
                  !.orig = [i \in AttendeeIds |->
                              IF i \in hit /\ S.obj[i] = NoObj THEN db[i] ELSE S.orig[i]],
                  !.mod = @ \cup hit]

BadgeUpdated == "Badge updated"
NoMoreBadges == "There are no more badges available for that type"
AlreadyBelongs == "That badge number already belongs to"
TooHigh == "That badge number was too high, so the next available badge was assigned instead"

\* attendee.badge_type = badge_type; return message
SetTypeAndReturn(S, id, badge_type, message) ==
    [S |-> SetColumn(S, id, "badge_type", badge_type), result |-> message]

\* The number an attendee is given when the number asked for is the one
\* the attendee has
SameNumberKept(n) == n
SameNumberPlusOne(n) == n + 1

\* if badge_num <= next: ... return 'That badge number was too high ...'
ReportsTooHighWhenAbove(badge_num, next) == badge_num > next
ReportsTooHigh(badge_num, next) == badge_num <= next

\* if badge_type not in c.PREASSIGNED_BADGE_TYPES and (not c.NUMBERED_BADGES
\* or not attendee.checked_in)
KeepsNumberlessNever(badge_type, checked_in) == FALSE
KeepsNumberless(badge_type, checked_in) ==
    badge_type \notin PREASSIGNED_BADGE_TYPES /\ (~conf.NUMBERED_BADGES \/ ~checked_in)

\* if next > c.BADGE_RANGES[badge_type][1]
RangeExhaustedNever(next, badge_type) == FALSE
RangeExhausted(next, badge_type) == next > BADGE_RANGES(badge_type).hi

\* self.query(Attendee).filter_by(badge_type=badge_type, badge_num=badge_num)
ExistingNever(badge_type, badge_num) == {}
Existing(badge_type, badge_num) ==
    {i \in AttendeeIds : db[i].present /\ db[i].badge_type = badge_type /\ db[i].badge_num = badge_num}

\* Session.change_badge(attendee, badge_type, badge_num)
ChangeBadge(S, id, badge_type, badge_num) ==
    LET attendee == S.obj[id]
        old_badge_num == attendee.badge_num
        out_of_range == CheckRange(badge_num, badge_type)
    IN
    IF out_of_range # "None" THEN [S |-> S, result |-> out_of_range]
    ELSE IF KeepsNumberless(badge_type, attendee.checked_in)
    THEN [S |-> SetColumn(SetColumn(S, id, "badge_type", badge_type), id, "badge_num", 0),
          result |-> BadgeUpdated]
    ELSE IF badge_num = 0
    THEN LET next == NextBadgeNum(S, badge_type, old_badge_num) IN
         IF RangeExhausted(next, badge_type)
         THEN [S |-> S, result |-> NoMoreBadges]
         ELSE SetTypeAndReturn(SetColumn(S, id, "badge_num", next), id, badge_type, BadgeUpdated)
    ELSE IF ~conf.SHIFT_CUSTOM_BADGES
    THEN LET existing == Existing(badge_type, badge_num) IN
         IF existing # {}
         THEN [S |-> S, result |-> AlreadyBelongs]
         ELSE SetTypeAndReturn(SetColumn(S, id, "badge_num", badge_num), id, badge_type, BadgeUpdated)
    ELSE LET next == NextBadgeNum(S, badge_type, old_badge_num)
             asked == Min(badge_num, next)
             new_badge_num == IF old_badge_num = asked THEN SameNumberPlusOne(asked) ELSE asked
             S1 == IF old_badge_num < asked
                   THEN ShiftBadges(S, badge_type, old_badge_num, asked, -1)
                   ELSE IF old_badge_num = asked THEN S
                   ELSE ShiftBadges(S, badge_type, asked, old_badge_num, 1)
             S2 == SetColumn(S1, id, "badge_num", new_badge_num)
         IN  SetTypeAndReturn(S2, id, badge_type,
                              IF ReportsTooHigh(badge_num, next) THEN TooHigh ELSE BadgeUpdated)

\* Attendee.unset_volunteering()
UnsetVolunteering(S, id) ==
    LET S1 == SetColumn(S, id, "staffing", FALSE) IN
    IF S1.obj[id].badge_type = "STAFF_BADGE"
    THEN LET S2 == IF conf.SHIFT_CUSTOM_BADGES
                   THEN ShiftBadges(S1, "STAFF_BADGE", S1.obj[id].badge_num, 0, -1)
                   ELSE S1
         IN  SetColumn(S2, id, "badge_type", "ATTENDEE_BADGE")
    ELSE S1

\* c.AT_THE_CON: the event has begun
AT_THE_CON == ~conf.PRE_CON

\* instance.is_new: the instance has no row yet
IsNew(S, id) == id \in S.new

\* What an adjustment hands on: the session, and the exception that ended it
Went(S) == [S |-> S, raised |-> "None"]
Raised(S, exception) == [S |-> S, raised |-> exception]

\* Attendee._misc_adjustments
MiscAdjustments(S, id) ==
    IF AT_THE_CON /\ S.obj[id].badge_num # 0 /\ IsNew(S, id)
    THEN SetColumn(S, id, "checked_in", TRUE)
    ELSE S

\* Attendee._badge_adjustments: comparing an amount_extra of None with
\* c.SUPPORTER_LEVEL raises TypeError
BadgeAdjustments(S, id) ==
    LET self == S.obj[id] IN
    IF self.amount_extra = "None" THEN Raised(S, "TypeError")
    ELSE IF ~conf.PRE_CON THEN Went(S)
    ELSE IF self.paid = "NOT_PAID" \/ self.badge_type \notin PREASSIGNED_BADGE_TYPES
    THEN Went(SetColumn(S, id, "badge_num", 0))
    ELSE IF self.badge_num = 0
    THEN Went(SetColumn(S, id, "badge_num", NextBadgeNum(S, self.badge_type, 0)))
    ELSE Went(S)

\* Attendee._staffing_adjustments
StaffingAdjustments(S, id) ==
    LET old_staffing == OrigValueOf(S, id, "staffing")
        S1 == IF IsNew(S, id) THEN S
              ELSE IF S.obj[id].staffing /\ ~old_staffing THEN SetColumn(S, id, "staffing", TRUE)
              ELSE IF old_staffing /\ ~S.obj[id].staffing THEN UnsetVolunteering(S, id)
              ELSE S
    IN  IF S1.obj[id].badge_type = "STAFF_BADGE" THEN SetColumn(S1, id, "staffing", TRUE) ELSE S1

\* model.presave_adjustments(): the adjustments in the order they are
\* declared; an instance of Email has none
PresaveAdjustments(S, id) ==
    IF ClassOf(id) # "Attendee" THEN Went(S)
    ELSE LET badge == BadgeAdjustments(MiscAdjustments(S, id), id) IN
         IF badge.raised # "None" THEN badge
         ELSE Went(StaffingAdjustments(badge.S, id))

\* model.predelete_adjustments(): Attendee._shift_badges
PredeleteAdjustments(S, id) ==
    IF ClassOf(id) # "Attendee" THEN S
    ELSE IF S.obj[id].badge_type \in PREASSIGNED_BADGE_TYPES /\ conf.SHIFT_CUSTOM_BADGES
    THEN ShiftBadges(S, S.obj[id].badge_type, S.obj[id].badge_num, 0, -1)
    ELSE S

\* The orders in which a loop can visit the instances of a set
Orders(set) ==
    {order \in [1..Cardinality(set) -> set] :
        \A i, j \in 1..Cardinality(set) : order[i] = order[j] => i = j}

RECURSIVE PresaveEach(_, _, _)
PresaveEach(R, order, i) ==
    IF i > Len(order) \/ R.raised # "None" THEN R
    ELSE PresaveEach(PresaveAdjustments(R.S, order[i]), order, i + 1)

RECURSIVE PredeleteEach(_, _, _)
PredeleteEach(S, order, i) ==
    IF i > Len(order) THEN S
    ELSE PredeleteEach(PredeleteAdjustments(S, order[i]), order, i + 1)

\* _presave_adjustments after it has taken the lock: chain(session.dirty,
\* session.new) is fixed before the first adjustment runs
RunNoAdjustments(S, dirtyOrder, newOrder, deletedOrder) == Went(S)
RunPresaveAdjustments(S, dirtyOrder, newOrder, deletedOrder) ==
    LET saved == PresaveEach(Went(S), dirtyOrder \o newOrder, 1) IN
    IF saved.raised # "None" THEN saved
    ELSE Went(PredeleteEach(saved.S, deletedOrder, 1))

(***************************************************************************)
(* Tracking                                                                *)
(***************************************************************************)
Digit(n) == <<"0", "1", "2", "3", "4", "5", "6", "7", "8", "9">>[n + 1]
RECURSIVE Decimal(_)
Decimal(n) == IF n < 10 THEN Digit(n) ELSE Decimal(n \div 10) \o Digit(n % 10)
\* repr(n) of an int
ReprInt(n) == IF n < 0 THEN "-" \o Decimal(-n) ELSE Decimal(n)

\* dict(column.type.choices)[value]: the labels of the options
ChoiceLabel(value) ==
    CASE value = "STAFF_BADGE" -> "Staff"
      [] value = "SUPPORTER_BADGE" -> "Supporter"
      [] value = "ATTENDEE_BADGE" -> "Attendee"
      [] value = "NOT_PAID" -> "no"
      [] value = "HAS_PAID" -> "yes"
      [] value = "0" -> "No thanks"
      [] OTHER -> "<nonstandard>"

\* Tracking.repr(column, value); "ValueError" when the value cannot be
\* formatted
ReprRaises(column, value) == column = "interests" /\ value # ""
TrackingRepr(column, value) ==
    CASE column = "interests" -> "''"
      [] column \in {"badge_type", "paid"} -> "'" \o ChoiceLabel(value) \o "'"
      [] column = "amount_extra" ->
            IF value = "None" THEN "None" ELSE "'" \o ChoiceLabel(value) \o "'"
      [] column = "badge_num" -> ReprInt(value)
      [] column = "staffing" -> IF value THEN "True" ELSE "False"
      [] column = "checked_in" -> IF value THEN "datetime.datetime(...)" ELSE "None"

\* Tracking.differences(instance): the columns whose value is not the
\* original one
Differences(S, id) ==
    {i \in 1..Len(AttendeeColumns) :
        OrigValueOf(S, id, AttendeeColumns[i]) # S.obj[id][AttendeeColumns[i]]}

\* Tracking.format(values): ', '.join('{}={}'.format(k, v) ...)
RECURSIVE Format(_, _, _)
Format(pairs, i, sep) ==
    IF i > Len(pairs) THEN ""
    ELSE sep \o pairs[i][1] \o "=" \o pairs[i][2] \o Format(pairs, i + 1, ", ")

\* The pairs of a set of columns, in the order of the table's columns
RECURSIVE PairsOf(_, _, _, _)
PairsOf(S, id, columns, i) ==
    IF i > Len(AttendeeColumns) THEN <<>>
    ELSE IF i \notin columns THEN PairsOf(S, id, columns, i + 1)
    ELSE LET c == AttendeeColumns[i]
             now == TrackingRepr(c, S.obj[id][c])
             v == IF S.orig[id] = NoObj THEN now
                  ELSE "'" \o TrackingRepr(c, OrigValueOf(S, id, c)) \o " -> " \o now \o "'"
         IN  <<<<c, v>>>> \o PairsOf(S, id, columns, i + 1)

\* Tracking.track(action, instance): the entries it adds to the session,
\* none or one, or "ValueError"
UpdatedAlways(columns) == "UPDATED"
UpdatedAction(columns) ==
    IF columns = {CHOOSE i \in 1..Len(AttendeeColumns) : AttendeeColumns[i] = "badge_num"}
    THEN "AUTO_BADGE_SHIFT" ELSE "UPDATED"

Track(S, action, id) ==
    LET all == 1..Len(AttendeeColumns)
        entry(a, data) == [action |-> a, model |-> ClassOf(id), fk_id |-> id, data |-> data]
    IN
    CASE id \notin AttendeeIds ->
            \* the columns of the other classes are not followed
            [entries |-> <<entry(action, IF action = "DELETED" THEN "id=" \o id ELSE "")>>, raised |-> "None"]
      [] action = "CREATED" ->
            IF \E i \in all : ReprRaises(AttendeeColumns[i], S.obj[id][AttendeeColumns[i]])
            THEN [entries |-> <<>>, raised |-> "ValueError"]
            ELSE [entries |-> <<entry(action, Format(PairsOf(S, id, all, 1), 1, ""))>>, raised |-> "None"]
      [] action = "UPDATED" ->
            LET diff == Differences(S, id) IN
            IF \E i \in diff : \/ ReprRaises(AttendeeColumns[i], S.obj[id][AttendeeColumns[i]])
                               \/ ReprRaises(AttendeeColumns[i], OrigValueOf(S, id, AttendeeColumns[i]))
            THEN [entries |-> <<>>, raised |-> "ValueError"]
            ELSE IF diff = {} THEN [entries |-> <<>>, raised |-> "None"]
            ELSE [entries |-> <<entry(UpdatedAction(diff), Format(PairsOf(S, id, diff, 1), 1, ""))>>,
                  raised |-> "None"]
      [] OTHER ->
            [entries |-> <<entry(action, "id=" \o id)>>, raised |-> "None"]

\* Tracking.UNTRACKED = [Tracking, Email]
UntrackedNothing == {}
UNTRACKED == {"Tracking", "Email"}

\* The order in which the model walks the instances of a set
InstanceOrder == <<"a1", "a2", "a3", "e1">>

\* for instance in instances: if its class is tracked: Tracking.track(...)
RECURSIVE TrackEach(_, _, _, _, _)
TrackEach(S, action, instances, i, T) ==
    IF i > Len(InstanceOrder) \/ T.raised # "None" THEN T
    ELSE IF InstanceOrder[i] \notin instances \/ ClassOf(InstanceOrder[i]) \in UNTRACKED
    THEN TrackEach(S, action, instances, i + 1, T)
    ELSE LET one == Track(S, action, InstanceOrder[i]) IN
         TrackEach(S, action, instances, i + 1,
                   [entries |-> T.entries \o one.entries, raised |-> one.raised])

\* _track_changes(session, context)
TrackChangesOf(S) ==
    LET created == TrackEach(S, "CREATED", S.new, 1, [entries |-> <<>>, raised |-> "None"])
        updated == TrackEach(S, "UPDATED", Dirty(S), 1, created)
    IN  TrackEach(S, "DELETED", S.del, 1, updated)

(***************************************************************************)
(* c.BADGE_LOCK and the flush listeners                                    *)
(***************************************************************************)
\* c.BADGE_LOCK = RLock(): free, or held by one thread that may acquire it
\* again; release() by a thread that does not hold it raises RuntimeError
\* and changes nothing.
LockCanAcquire(t) == lockOwner \in {NoThread, t}
LockAcquired(t) == [owner |-> t, count |-> lockCount + 1]
LockReleased(t) ==
    IF lockOwner # t THEN [owner |-> lockOwner, count |-> lockCount]
    ELSE IF lockCount = 1 THEN [owner |-> NoThread, count |-> 0]
    ELSE [owner |-> t, count |-> lockCount - 1]

\* c.BADGE_LOCK.acquire() at the head of _presave_adjustments
PresaveTakesNoLock(t) == [can |-> TRUE, lock |-> [owner |-> lockOwner, count |-> lockCount]]
PresaveTakesLock(t) == [can |-> LockCanAcquire(t), lock |-> LockAcquired(t)]

Idle(t) == t \in conf.threads /\ fpc[t] = "idle" /\ flushes < MaxFlushes
CanOp(t) == Idle(t) /\ sess[t].ops < conf.max_ops
InFlush(t) == fpc[t] \in {"track", "write"}

\* The instances a request can reach through its session
Reachable(S, id) == id \in S.new \/ (db[id].present /\ id \notin S.del)
Pending(id) == \E u \in Threads : id \in sess[u].new

Did(op, t, id, badge_type, badge_num, result) ==
    [op |-> op, t |-> t, id |-> id, badge_type |-> badge_type, badge_num |-> badge_num, result |-> result]

Counted(S) == [S EXCEPT !.ops = @ + 1]

AllNumsWithin(S) ==
    \A i \in AttendeeIds : S.obj[i] # NoObj => (S.obj[i].badge_num >= -NumCap /\ S.obj[i].badge_num <= NumCap)

\* session.add(session.attendee(params)) for a new registration
RequestAdd(t) ==
    /\ CanOp(t)
    /\ \E id \in AttendeeIds, badge_type \in BadgeTypeSet, paid \in {"NOT_PAID", "HAS_PAID"} :
          /\ ~db[id].present /\ ~Pending(id)
          /\ sess' = [sess EXCEPT ![t] = Counted([@ EXCEPT !.obj[id] = NewAttendee(badge_type, paid),
                                                          !.new = @ \cup {id}])]
          /\ last' = Did("add", t, id, badge_type, 0, "None")
    /\ UNCHANGED <<conf, db, fpc, tracked, flushes, lockOwner, lockCount>>
    /\ UNCHANGED exceptFlush

\* session.add(Email(...))
RequestAddEmail(t) ==
    /\ CanOp(t)
    /\ \E id \in EmailIds :
          /\ ~Pending(id)
          /\ sess' = [sess EXCEPT ![t] = Counted([@ EXCEPT !.new = @ \cup {id}])]
          /\ last' = Did("add", t, id, "None", 0, "None")
    /\ UNCHANGED <<conf, db, fpc, tracked, flushes, lockOwner, lockCount>>
    /\ UNCHANGED exceptFlush

\* What a form sets on a stored attendee: session.attendee(params)
FormValues ==
    {<<"paid", "HAS_PAID">>, <<"paid", "NOT_PAID">>, <<"staffing", FALSE>>,
     <<"amount_extra", "None">>, <<"interests", "x">>, <<"checked_in", TRUE>>}

RequestSet(t) ==
    /\ CanOp(t)
    /\ \E id \in AttendeeIds, cv \in FormValues :
          /\ Reachable(sess[t], id)
          /\ sess' = [sess EXCEPT ![t] = Counted(SetColumn(Load(@, id), id, cv[1], cv[2]))]
          /\ last' = Did("set", t, id, "None", 0, cv[1])
    /\ UNCHANGED <<conf, db, fpc, tracked, flushes, lockOwner, lockCount>>
    /\ UNCHANGED exceptFlush

\* session.change_badge(attendee, badge_type, badge_num), called by a
\* request handler
RequestChangeBadge(t) ==
    /\ CanOp(t)
    /\ \E id \in AttendeeIds, badge_type \in BadgeTypeSet :
       \E badge_num \in {0} \cup (BADGE_RANGES(badge_type).lo..(BADGE_RANGES(badge_type).hi + 1)) :
          /\ Reachable(sess[t], id)
          /\ LET r == ChangeBadge(Load(sess[t], id), id, badge_type, badge_num) IN
             /\ AllNumsWithin(r.S)
             /\ sess' = [sess EXCEPT ![t] = Counted(r.S)]
             /\ last' = Did("change_badge", t, id, badge_type, badge_num, r.result)
    /\ UNCHANGED <<conf, db, fpc, tracked, flushes, lockOwner, lockCount>>
    /\ UNCHANGED exceptFlush

\* attendee.unset_volunteering(), called by a request handler
RequestUnsetVolunteering(t) ==
    /\ CanOp(t)
    /\ \E id \in AttendeeIds :
          /\ Reachable(sess[t], id)
          /\ LET S == UnsetVolunteering(Load(sess[t], id), id) IN
             /\ AllNumsWithin(S)
             /\ sess' = [sess EXCEPT ![t] = Counted(S)]
          /\ last' = Did("unset_volunteering", t, id, "None", 0, "None")
    /\ UNCHANGED <<conf, db, fpc, tracked, flushes, lockOwner, lockCount>>
    /\ UNCHANGED exceptFlush

\* session.delete(attendee)
RequestDelete(t) ==
    /\ CanOp(t)
    /\ \E id \in AttendeeIds :
          /\ db[id].present /\ id \notin sess[t].del
          /\ sess' = [sess EXCEPT ![t] = Counted([Load(@, id) EXCEPT !.del = @ \cup {id}])]
          /\ last' = Did("delete", t, id, "None", 0, "None")
    /\ UNCHANGED <<conf, db, fpc, tracked, flushes, lockOwner, lockCount>>
    /\ UNCHANGED exceptFlush

\* session.flush() reaches before_flush: _presave_adjustments takes the
\* lock and runs the adjustments.  An exception of an adjustment ends the
\* flush there, and the request's session is rolled back.
BeforeFlush(t) ==
    /\ Idle(t)
    /\ sess[t].new \cup sess[t].del \cup sess[t].mod # {}
    /\ PresaveTakesLock(t).can
    /\ lockCount < MaxLockDepth
    /\ lockOwner' = PresaveTakesLock(t).lock.owner
    /\ lockCount' = PresaveTakesLock(t).lock.count
    /\ \E dirtyOrder \in Orders(Dirty(sess[t])), newOrder \in Orders(sess[t].new),
          deletedOrder \in Orders(sess[t].del) :
          LET r == RunPresaveAdjustments(sess[t], dirtyOrder, newOrder, deletedOrder) IN
          IF r.raised # "None"
          THEN /\ sess' = [sess EXCEPT ![t] = EmptySession]
               /\ fpc' = fpc
               /\ last' = Did("before_flush", t, "None", "None", 0, r.raised)
          ELSE /\ sess' = [sess EXCEPT ![t] = r.S]
               /\ fpc' = [fpc EXCEPT ![t] = "track"]
               /\ last' = Did("before_flush", t, "None", "None", 0, "None")
    /\ UNCHANGED <<conf, db, tracked, flushes>>
    /\ UNCHANGED exceptFlush

\* A statement of an adjustment fails: dbapi_error fires
\* _release_badge_lock_on_error, which gives back the acquisition of this
\* flush, and the flush ends.
BeforeFlushFails(t) ==
    /\ Idle(t)
    /\ sess[t].new \cup sess[t].del \cup sess[t].mod # {}
    /\ PresaveTakesLock(t).can
    /\ sess' = [sess EXCEPT ![t] = EmptySession]
    /\ last' = Did("before_flush", t, "None", "None", 0, "DBAPIError")
    /\ UNCHANGED <<conf, db, fpc, tracked, flushes, lockOwner, lockCount>>
    /\ UNCHANGED exceptFlush

\* before_flush, second listener: _track_changes
TrackChanges(t) ==
    /\ t \in conf.threads /\ fpc[t] = "track"
    /\ LET r == TrackChangesOf(sess[t]) IN
       IF r.raised # "None"
       THEN /\ sess' = [sess EXCEPT ![t] = EmptySession]
            /\ fpc' = [fpc EXCEPT ![t] = "idle"]
            /\ tracked' = tracked
            /\ last' = Did("track_changes", t, "None", "None", 0, r.raised)
       ELSE /\ sess' = sess
            /\ fpc' = [fpc EXCEPT ![t] = "write"]
            /\ tracked' = [tracked EXCEPT ![t] = r.entries]
            /\ last' = Did("track_changes", t, "None", "None", 0, "None")
    /\ UNCHANGED <<conf, db, flushes, lockOwner, lockCount>>
    /\ UNCHANGED exceptFlush

\* The rows of the table once the session's instances are written
Flushed(S) ==
    [i \in AttendeeIds |->
        IF i \in S.del THEN Absent
        ELSE IF i \in S.new \cup S.mod THEN S.obj[i]
        ELSE db[i]]

\* The flush writes the rows.  after_flush: _release_badge_lock; a failing
\* statement: dbapi_error, _release_badge_lock_on_error, and nothing is
\* written.  Either way the request's session ends.
FlushWrite(t) ==
    /\ t \in conf.threads /\ fpc[t] = "write"
    /\ \E dbapi_error \in BOOLEAN :
          /\ db' = IF dbapi_error THEN db ELSE Flushed(sess[t])
          /\ flushes' = IF dbapi_error THEN flushes ELSE flushes + 1
          /\ last' = Did("flush", t, "None", "None", 0, IF dbapi_error THEN "DBAPIError" ELSE "None")
    /\ lockOwner' = LockReleased(t).owner
    /\ lockCount' = LockReleased(t).count
    /\ sess' = [sess EXCEPT ![t] = EmptySession]
    /\ fpc' = [fpc EXCEPT ![t] = "idle"]
    /\ tracked' = [tracked EXCEPT ![t] = <<>>]
    /\ UNCHANGED conf
    /\ UNCHANGED exceptFlush

\* A statement of a request fails outside a flush: dbapi_error fires
\* _release_badge_lock_on_error on the request's thread.
QueryFails(t) ==
    /\ Idle(t)
    /\ lockOwner' = LockReleased(t).owner
    /\ lockCount' = LockReleased(t).count
    /\ sess' = [sess EXCEPT ![t] = EmptySession]
    /\ last' = Did("query", t, "None", "None", 0, "DBAPIError")
    /\ UNCHANGED <<conf, db, fpc, tracked, flushes>>
    /\ UNCHANGED exceptFlush

\* The request ends without a flush: the session is closed.
RequestEnds(t) ==
    /\ Idle(t)
    /\ sess[t] # EmptySession
    /\ sess' = [sess EXCEPT ![t] = EmptySession]
    /\ last' = Did("close", t, "None", "None", 0, "None")
    /\ UNCHANGED <<conf, db, fpc, tracked, flushes, lockOwner, lockCount>>
    /\ UNCHANGED exceptFlush

Staff(n) == [NewAttendee("STAFF_BADGE", "HAS_PAID") EXCEPT !.badge_num = n, !.staffing = TRUE]
Supporter(n) == [NewAttendee("SUPPORTER_BADGE", "HAS_PAID") EXCEPT !.badge_num = n]
Plain == NewAttendee("ATTENDEE_BADGE", "HAS_PAID")

\* The tables the runs begin with: the staff badges all taken; one staff
\* badge, one supporter badge and an attendee without a number; one
\* attendee alone.
StaffTable == [i \in AttendeeIds |-> IF i = "a1" THEN Staff(1) ELSE IF i = "a2" THEN Staff(2) ELSE Absent]
MixedTable ==
    [i \in AttendeeIds |->
        IF i = "a1" THEN Staff(1)
        ELSE IF i = "a2" THEN Supporter(BADGE_RANGES("SUPPORTER_BADGE").lo)
        ELSE Plain]
PlainTable == [i \in AttendeeIds |-> IF i = "a1" THEN Plain ELSE Absent]
Tables == {StaffTable, MixedTable, PlainTable}
\* A table of the days of the event, badges numbered at check-in: an
\* attendee checked in with the first attendee badge, one not yet checked
\* in, and a former staffer whose badge type unset_volunteering made
\* ATTENDEE_BADGE and who kept staff badge 1.
CheckedInTable ==
    [i \in AttendeeIds |->
        IF i = "a1" THEN [Plain EXCEPT !.checked_in = TRUE, !.badge_num = BADGE_RANGES("ATTENDEE_BADGE").lo]
        ELSE IF i = "a2" THEN Plain
        ELSE [Plain EXCEPT !.badge_num = BADGE_RANGES("STAFF_BADGE").lo]]

Conf(threads, max_ops, shift, numbered, pre_con) ==
    [threads |-> threads, max_ops |-> max_ops,
     SHIFT_CUSTOM_BADGES |-> shift, NUMBERED_BADGES |-> numbered, PRE_CON |-> pre_con]

FlushQuiet ==
    /\ sess = [t \in Threads |-> EmptySession]
    /\ fpc = [t \in Threads |-> "idle"]
    /\ tracked = [t \in Threads |-> <<>>]
    /\ flushes = 0
    /\ lockOwner = NoThread
    /\ lockCount = 0
    /\ last = Did("none", "none", "None", "None", 0, "None")

\* The parts that take no step of this part begin with one configuration.
FlushOnly == conf = Conf({"t1"}, MaxOps, TRUE, TRUE, TRUE) /\ db = StaffTable /\ FlushQuiet

FlushStep(t) ==
    \/ RequestAdd(t)
    \/ RequestAddEmail(t)
    \/ RequestSet(t)
    \/ RequestChangeBadge(t)
    \/ RequestUnsetVolunteering(t)
    \/ RequestDelete(t)
    \/ BeforeFlush(t)
    \/ BeforeFlushFails(t)
    \/ TrackChanges(t)
    \/ FlushWrite(t)
    \/ QueryFails(t)
    \/ RequestEnds(t)

FlushNext == \E t \in Threads : FlushStep(t)

(***************************************************************************)
(* insert_test_admin_account                                               *)
(***************************************************************************)
\* The calls construct at most this many test attendees.
MaxTestAdmins == 3

TestEmail == "magfest@example.com"
AttendeeRow(id, email) == [class |-> "Attendee", id |-> id, email |-> email]
AccountRow(attendee) == [class |-> "AdminAccount", attendee |-> attendee]

\* self.query(sa.AdminAccount).count(): the rows of the table; pending
\* instances are not flushed by a query
AccountCountWithPending(pending) ==
    Cardinality(tAccounts) + Cardinality({i \in pending : i.class = "AdminAccount"})
AccountCount(pending) == Cardinality(tAccounts)

\* SessionMixin.insert_test_admin_account(), in a session with the
\* pending instances given; id is the id of the attendee it constructs
InsertTestAdminAccount(pending, id) ==
    IF AccountCount(pending) # 0
    THEN [new |-> pending, result |-> FALSE]
    ELSE [new |-> pending \cup {AttendeeRow(id, TestEmail), AccountRow(id)}, result |-> TRUE]

\* The admin accounts of the table that belong to a test attendee
TestAdmins ==
    {a \in tAccounts : \E r \in tAttendees : r.id = a.attendee /\ r.email = TestEmail}

AccountsOnly ==
    /\ \/ tAttendees = {} /\ tAccounts = {}
       \/ tAttendees = {AttendeeRow(0, "admin@example.com")} /\ tAccounts = {AccountRow(0)}
    /\ tNew = [t \in Threads |-> {}]
    /\ tMade = 0
    /\ tLast = [op |-> "none"]

\* A request calls session.insert_test_admin_account()
InsertTestAdmin(t) ==
    /\ tMade < MaxTestAdmins
    /\ LET r == InsertTestAdminAccount(tNew[t], tMade + 1) IN
       /\ tNew' = [tNew EXCEPT ![t] = r.new]
       /\ tMade' = IF r.result THEN tMade + 1 ELSE tMade
       /\ tLast' = [op |-> "insert_test_admin_account", t |-> t, result |-> r.result,
                    before |-> tNew[t], accounts |-> tAccounts]
    /\ UNCHANGED <<tAttendees, tAccounts>>
    /\ UNCHANGED exceptAdmin

\* session.commit() at the end of the request
AdminCommit(t) ==
    /\ tNew[t] # {}
    /\ tAttendees' = tAttendees \cup {i \in tNew[t] : i.class = "Attendee"}
    /\ tAccounts' = tAccounts \cup {i \in tNew[t] : i.class = "AdminAccount"}
    /\ tNew' = [tNew EXCEPT ![t] = {}]
    /\ tLast' = [op |-> "commit", t |-> t]
    /\ UNCHANGED tMade
    /\ UNCHANGED exceptAdmin

\* The request ends with an exception: the session is rolled back
AdminRollback(t) ==
    /\ tNew[t] # {}
    /\ tNew' = [tNew EXCEPT ![t] = {}]
    /\ tLast' = [op |-> "rollback", t |-> t]
    /\ UNCHANGED <<tAttendees, tAccounts, tMade>>
    /\ UNCHANGED exceptAdmin

AdminNext ==
    \E t \in Threads :
        \/ InsertTestAdmin(t)
        \/ AdminCommit(t)
        \/ AdminRollback(t)

(***************************************************************************)
(* The specifications                                                      *)
(***************************************************************************)
\* The parts that take no step of this part begin without admin accounts.
AdminQuiet == AccountsOnly /\ tAccounts = {}

StartupInit == StartupOnly /\ GroupOnly /\ ApplyOnly /\ FlushOnly /\ AdminQuiet
GroupInit == StartupOnly /\ GroupOnly /\ ApplyOnly /\ FlushOnly /\ AdminQuiet
ApplyInit == StartupOnly /\ GroupOnly /\ ApplyOnly /\ FlushOnly /\ AdminQuiet

\* One request thread, every configuration, each table.
Init ==
    /\ StartupOnly /\ GroupOnly /\ ApplyOnly /\ FlushQuiet /\ AdminQuiet
    /\ \E shift, numbered, pre_con \in BOOLEAN : conf = Conf({"t1"}, MaxOps, shift, numbered, pre_con)
    /\ \/ db \in Tables
       \/ db = CheckedInTable /\ conf.NUMBERED_BADGES /\ ~conf.PRE_CON

Next == FlushNext

Spec == Init /\ [][Next]_vars

\* Two request threads.
ThreadsInit ==
    /\ StartupOnly /\ GroupOnly /\ ApplyOnly /\ FlushQuiet /\ AdminQuiet
    /\ conf = Conf(Threads, 1, TRUE, TRUE, TRUE)
    /\ db = StaffTable

SpecThreads == ThreadsInit /\ [][Next]_vars

AdminInit == StartupOnly /\ GroupOnly /\ ApplyOnly /\ FlushOnly /\ AccountsOnly

SpecAdmin == AdminInit /\ [][AdminNext]_vars

\* C11: insert_test_admin_account returns False and adds nothing when an
\* admin account exists; when none exists it adds one Attendee and one
\* AdminAccount linked to it and returns True; and however often it is
\* called, the table never holds more than one test admin.
C11_AtMostOneTestAdmin ==
    /\ tLast.op = "insert_test_admin_account" =>
          /\ tLast.accounts # {} => (~tLast.result /\ tNew[tLast.t] = tLast.before)
          /\ tLast.accounts = {} =>
                /\ tLast.result
                /\ \E id \in 1..MaxTestAdmins :
                      /\ AttendeeRow(id, TestEmail) \notin tLast.before
                      /\ tNew[tLast.t] = tLast.before \cup {AttendeeRow(id, TestEmail), AccountRow(id)}
    /\ Cardinality(TestAdmins) <= 1

\* C1: no flush that has ended, with or without an exception, leaves
\* BADGE_LOCK held: a thread that is not inside a flush does not hold it.
C1_EndedFlushHoldsNoLock ==
    \A t \in Threads : ~InFlush(t) => lockOwner # t

C3_BadgeNumChangesUnderLock ==
    \A t \in Threads : \A i \in AttendeeIds :
        (/\ sess[t].obj[i] # NoObj
         /\ sess[t].obj[i].badge_num # (IF sess[t].orig[i] # NoObj THEN sess[t].orig[i].badge_num ELSE 0))
        => lockOwner = t

\* C4: no two attendees of the table with the same preassigned badge type
\* have the same nonzero badge number within the range of the type.
C4_BadgeNumbersUnique ==
    \A i, j \in AttendeeIds :
        (/\ i # j
         /\ db[i].present /\ db[j].present
         /\ db[i].badge_type = db[j].badge_type
         /\ db[i].badge_type \in PREASSIGNED_BADGE_TYPES
         /\ db[i].badge_num # 0
         /\ db[i].badge_num >= BADGE_RANGES(db[i].badge_type).lo
         /\ db[i].badge_num <= BADGE_RANGES(db[i].badge_type).hi)
        => db[i].badge_num # db[j].badge_num

\* The Tracking entries a flush has added for an instance
EntriesFor(t, id) == {k \in 1..Len(tracked[t]) : tracked[t][k].fk_id = id}

\* C7: once the before_flush listeners of a flush have run, the session
\* holds exactly one Tracking entry for each new instance, each deleted
\* instance and each dirty instance with a changed column, of the action
\* that fits, and none for an instance of Tracking or Email, nor for a
\* dirty instance that changed no column.
C7_OneEntryPerMutation ==
    \A t \in Threads : fpc[t] = "write" =>
        LET S == sess[t] IN
        \A id \in InstanceIds :
            LET entries == {tracked[t][k] : k \in EntriesFor(t, id)}
                changed == /\ id \in AttendeeIds
                           /\ \E c \in {"badge_type", "badge_num", "paid", "staffing", "checked_in",
                                         "amount_extra", "interests"} :
                                 S.obj[id][c] # S.orig[id][c]
            IN  IF ClassOf(id) \in {"Tracking", "Email"} THEN EntriesFor(t, id) = {}
                ELSE IF id \in S.new
                THEN Cardinality(EntriesFor(t, id)) = 1 /\ \A e \in entries : e.action = "CREATED"
                ELSE IF id \in S.del
                THEN Cardinality(EntriesFor(t, id)) = 1 /\ \A e \in entries : e.action = "DELETED"
                ELSE IF id \in S.mod /\ changed
                THEN /\ Cardinality(EntriesFor(t, id)) = 1
                     /\ \A e \in entries : e.action \in {"UPDATED", "AUTO_BADGE_SHIFT"}
                ELSE EntriesFor(t, id) = {}

C7_Witness ==
    /\ fpc["t1"] = "write"
    /\ "e1" \in sess["t1"].new
    /\ sess["t1"].del # {}
    /\ \E i \in sess["t1"].mod \ sess["t1"].del :
          sess["t1"].obj[i].badge_num # sess["t1"].orig[i].badge_num
    /\ Len(tracked["t1"]) = 2

\* The startup thread is never suspended for ever: each step of the loop
\* that can be taken is taken.
SpecStartup == StartupInit /\ [][StartupNext]_vars /\ WF_vars(StartupStep)

StartupTerminated == ipc \in {"returned", "raised"}

SpecApply == ApplyInit /\ [][ApplyNext]_vars

\* C8: apply(params, restricted=True) leaves every admin_only column as it
\* was, whatever params and the request method are, and apply changes the
\* id column in neither mode.
C8_RestrictedKeepsAdminOnly ==
    aCall.op = "apply" =>
        /\ aCall.restricted => \A c \in Columns : AdminOnly(c) => aInst[c] = aBefore[c]
        /\ aCall.restricted =>
              \A c \in Columns : aInst[c] # aBefore[c] => c \in {"first_name", "interests", "amount_extra", "staffing"}
        /\ aInst["id"] = aBefore["id"]

C8_Witness ==
    /\ aCall.op = "apply"
    /\ aCall.restricted
    /\ aCall.method = "POST"
    /\ DOMAIN aCall.params = {"trusted", "first_name"}
    /\ aCall.params["trusted"] = PyStr(" 1 ")
    /\ aBefore["trusted"] = PyBool(FALSE)
    /\ aInst["first_name"] # aBefore["first_name"]
    /\ ~aCall.raised

SpecGroup == GroupInit /\ [][GroupNext]_vars

\* C9: assign_badges never removes an assigned badge: asked to go below
\* the assigned badges it answers with the message and changes nothing, and
\* whatever it deletes was floating.
C9_NeverRemovesAssigned ==
    gLast.op = "assign_badges" =>
        LET before == gLast.before
            diff == gLast.n - Len(before)
            floatingBefore == SeqRange(Floating(before))
        IN  /\ (diff < 0 /\ Cardinality(floatingBefore) < -diff) =>
                  /\ gLast.result = TooFewFloating
                  /\ gAttendees = before
                  /\ gLast.gone = {}
            /\ gLast.gone \subseteq floatingBefore
            /\ \A i \in gLast.gone :
                  IsUnassigned(before[i]) /\ before[i].paid = "PAID_BY_GROUP"
            /\ \A i \in 1..Len(before) :
                  (~IsUnassigned(before[i])) => i \notin gLast.gone

\* C9, the part the code keeps: an assigned badge is never removed, and
\* nothing is removed when the request goes below the assigned badges.
C9_Kept ==
    gLast.op = "assign_badges" =>
        LET before == gLast.before
            diff == gLast.n - Len(before)
            floatingBefore == SeqRange(Floating(before))
        IN  /\ (diff < 0 /\ Cardinality(floatingBefore) < -diff) =>
                  /\ gLast.result \in {TooFewFloating, "TypeError"}
                  /\ gAttendees = before
                  /\ gLast.gone = {}
            /\ \A i \in gLast.gone :
                  IsUnassigned(before[i]) /\ before[i].paid = "PAID_BY_GROUP"

C9_Witness ==
    /\ gLast.op = "assign_badges"
    /\ gLast.result = TooFewFloating
    /\ \E a \in SeqRange(gLast.before) : ~IsUnassigned(a)
    /\ Floating(gLast.before) # <<>>

\* C10: when assign_badges(group, n) returns without a message, group.badges
\* is n: grown by appending, or shrunk by deleting the most recently
\* registered floating attendees, which also leave group.attendees.
C10_BadgeCountIsRequest ==
    (gLast.op = "assign_badges" /\ gLast.result = "None") =>
        LET before == gLast.before
            kept == SeqRange(Floating(before)) \ gLast.gone
        IN  /\ GroupBadges(gAttendees) = gLast.n
            /\ gLast.n >= Len(before) =>
                  /\ SubSeq(gAttendees, 1, Len(before)) = before
                  /\ \A i \in (Len(before) + 1)..Len(gAttendees) :
                        gAttendees[i] = NewGroupAttendee
                  /\ gLast.gone = {}
            /\ gLast.n < Len(before) =>
                  /\ Cardinality(gLast.gone) = Len(before) - gLast.n
                  /\ gAttendees = WithoutPlaces(before, 1, gLast.gone)
                  /\ \A i \in gLast.gone : \A j \in kept :
                        before[i].registered[1] >= before[j].registered[1]

C10_Witness ==
    /\ gLast.op = "assign_badges"
    /\ gLast.result = "None"
    /\ gLast.n < Len(gLast.before)
    /\ \E i \in gLast.gone : \E j \in SeqRange(Floating(gLast.before)) \ gLast.gone :
          gLast.before[i].registered[1] > gLast.before[j].registered[1]

\* The attendee a session sees: its instance, or the row it would load
Seen(S, i) == IF S.obj[i] # NoObj THEN S.obj[i] ELSE db[i]

\* The step is a call of change_badge that left the attendee's badge_type
\* and every attendee's badge_num as the session saw them before
ChangedNothing ==
    LET t == last'.t IN
    /\ Seen(sess'[t], last'.id).badge_type = Seen(sess[t], last'.id).badge_type
    /\ \A i \in AttendeeIds : Seen(sess'[t], i).badge_num = Seen(sess[t], i).badge_num

\* The call of this step takes the numbering branch of change_badge: the
\* type is preassigned, or badges are numbered and the attendee checked in
NumberingBranch ==
    \/ last'.badge_type \in PREASSIGNED_BADGE_TYPES
    \/ conf.NUMBERED_BADGES /\ Seen(sess[last'.t], last'.id).checked_in

\* The number asked for by the call of this step belongs to an attendee
\* of the table with the badge type asked for
AskedBelongs ==
    \E i \in AttendeeIds :
        /\ db[i].present
        /\ db[i].badge_type = last'.badge_type
        /\ db[i].badge_num = last'.badge_num
        /\ last'.badge_num # 0

\* C12: with SHIFT_CUSTOM_BADGES off, a call of change_badge that takes
\* the numbering branch with a number of the type's range that belongs
\* to an attendee of that type returns 'That badge number already belongs
\* to ...' and changes neither the attendee's badge_type nor any badge_num.
C12_NoClobberWhenNumbering ==
    [][(/\ last'.op = "change_badge"
        /\ ~conf.SHIFT_CUSTOM_BADGES
        /\ AskedBelongs
        /\ NumberingBranch
        /\ CheckRange(last'.badge_num, last'.badge_type) = "None")
       => (last'.result = AlreadyBelongs /\ ChangedNothing)]_vars

\* C12 as it is written: the same of every call, whatever branch it takes.
C12_NoClobber ==
    [][(/\ last'.op = "change_badge"
        /\ ~conf.SHIFT_CUSTOM_BADGES
        /\ AskedBelongs)
       => (last'.result = AlreadyBelongs /\ ChangedNothing)]_vars

C12_Witness ==
    /\ last.op = "change_badge"
    /\ ~conf.SHIFT_CUSTOM_BADGES
    /\ last.result = AlreadyBelongs
    /\ \E i \in AttendeeIds \ {last.id} :
          db[i].present /\ db[i].badge_type = last.badge_type /\ db[i].badge_num = last.badge_num
    /\ Seen(sess[last.t], last.id).badge_type # last.badge_type

InRange(badge_num, badge_type) ==
    badge_num >= BADGE_RANGES(badge_type).lo /\ badge_num <= BADGE_RANGES(badge_type).hi

\* C13: after change_badge has returned 'Badge updated' or the 'too high'
\* message for a preassigned badge type, the attendee's badge_num is not 0
\* and lies within the range of the type.
C13_PreassignedGetsNumberInRange ==
    (/\ last.op = "change_badge"
     /\ last.result \in {BadgeUpdated, TooHigh}
     /\ last.badge_type \in PREASSIGNED_BADGE_TYPES)
    => (/\ Seen(sess[last.t], last.id).badge_num # 0
        /\ InRange(Seen(sess[last.t], last.id).badge_num, last.badge_type))

\* The step changes no badge_num but, at most, that of the attendee of
\* the call
OthersKeepNumbers ==
    \A i \in AttendeeIds \ {last'.id} :
        Seen(sess'[last'.t], i).badge_num = Seen(sess[last'.t], i).badge_num

\* C14: a call of change_badge that check_range lets pass, for a badge type
\* that is not preassigned, with NUMBERED_BADGES off or the attendee not
\* checked in, returns 'Badge updated', leaves the attendee with the new
\* badge type and badge_num 0, and changes no other attendee's badge_num.
C14_NonPreassignedLeftNumberless ==
    [][(/\ last'.op = "change_badge"
        /\ last'.badge_type \notin PREASSIGNED_BADGE_TYPES
        /\ (~conf.NUMBERED_BADGES \/ ~Seen(sess[last'.t], last'.id).checked_in)
        /\ CheckRange(last'.badge_num, last'.badge_type) = "None")
       => (/\ last'.result = BadgeUpdated
           /\ Seen(sess'[last'.t], last'.id).badge_type = last'.badge_type
           /\ Seen(sess'[last'.t], last'.id).badge_num = 0
           /\ OthersKeepNumbers)]_vars

\* C14 as it is written: the same of every badge_num the call is given.
C14_NonPreassignedNumberless ==
    [][(/\ last'.op = "change_badge"
        /\ last'.badge_type \notin PREASSIGNED_BADGE_TYPES
        /\ (~conf.NUMBERED_BADGES \/ ~Seen(sess[last'.t], last'.id).checked_in))
       => (/\ last'.result = BadgeUpdated
           /\ Seen(sess'[last'.t], last'.id).badge_type = last'.badge_type
           /\ Seen(sess'[last'.t], last'.id).badge_num = 0
           /\ OthersKeepNumbers)]_vars

C14_Witness ==
    /\ last.op = "change_badge"
    /\ last.badge_type = "ATTENDEE_BADGE"
    /\ last.badge_num # 0
    /\ conf.NUMBERED_BADGES
    /\ last.result = BadgeUpdated
    /\ sess[last.t].orig[last.id] # NoObj
    /\ sess[last.t].orig[last.id].badge_type = "STAFF_BADGE"
    /\ sess[last.t].orig[last.id].badge_num # 0
    /\ sess[last.t].obj[last.id].badge_num = 0
    /\ sess[last.t].obj[last.id].badge_type = "ATTENDEE_BADGE"

\* The number next_badge_num gives the call of this step
NextOfCall ==
    NextBadgeNum(Load(sess[last'.t], last'.id), last'.badge_type, Seen(sess[last'.t], last'.id).badge_num)

\* C15: a call of change_badge without a badge_num for a preassigned type,
\* when the next number is beyond the range of the type, returns 'There
\* are no more badges available for that type' and leaves the attendee's
\* badge_type and badge_num, and every other badge_num, as they were.
C15_NoMoreBadgesChangesNothing ==
    [][(/\ last'.op = "change_badge"
        /\ last'.badge_num = 0
        /\ last'.badge_type \in PREASSIGNED_BADGE_TYPES
        /\ NextOfCall > BADGE_RANGES(last'.badge_type).hi)
       => (last'.result = NoMoreBadges /\ ChangedNothing)]_vars

C15_Witness ==
    /\ last.op = "change_badge"
    /\ last.result = NoMoreBadges
    /\ last.badge_type = "STAFF_BADGE"
    /\ Seen(sess[last.t], last.id).badge_type = "ATTENDEE_BADGE"
    /\ Seen(sess[last.t], last.id).badge_num = 0

\* C16: with SHIFT_CUSTOM_BADGES on, a call of change_badge with a
\* badge_num returns the 'too high' message exactly when the badge_num is
\* greater than the next number, and the attendee then has the next
\* number; otherwise it returns 'Badge updated' and the attendee has the
\* number asked for.
C16_TooHighExactlyWhenAboveNext ==
    [][(/\ last'.op = "change_badge"
        /\ conf.SHIFT_CUSTOM_BADGES
        /\ last'.badge_num # 0
        /\ NumberingBranch
        /\ CheckRange(last'.badge_num, last'.badge_type) = "None")
       => (/\ (last'.result = TooHigh) <=> (last'.badge_num > NextOfCall)
           /\ last'.badge_num > NextOfCall =>
                 Seen(sess'[last'.t], last'.id).badge_num = NextOfCall
           /\ last'.badge_num <= NextOfCall =>
                 /\ last'.result = BadgeUpdated
                 /\ Seen(sess'[last'.t], last'.id).badge_num = last'.badge_num)]_vars

\* The highest badge number of a type the table holds within its range
HighestInRange(badge_type) ==
    LET nums == {db[i].badge_num : i \in {j \in AttendeeIds :
                    db[j].present /\ db[j].badge_type = badge_type /\ InRange(db[j].badge_num, badge_type)}}
    IN  IF nums = {} THEN 0 ELSE MaxOf(nums)

\* C17: wherever a session can call next_badge_num(badge_type,
\* old_badge_num) for an attendee whose badge_num is not 0 and is the
\* highest of the preassigned type within its range, the call returns
\* old_badge_num.
C17_NoIncrementAtHighest ==
    \A t \in conf.threads : \A i \in AttendeeIds : \A badge_type \in PREASSIGNED_BADGE_TYPES :
        (/\ Reachable(sess[t], i)
         /\ Seen(sess[t], i).badge_num # 0
         /\ Seen(sess[t], i).badge_num = HighestInRange(badge_type))
        => NextBadgeNum(Load(sess[t], i), badge_type, Seen(sess[t], i).badge_num)
              = Seen(sess[t], i).badge_num

\* The columns of an instance whose value is not the original one
ChangedColumns(S, id) ==
    {k \in 1..Len(AttendeeColumns) : S.obj[id][AttendeeColumns[k]] # S.orig[id][AttendeeColumns[k]]}

\* "column='old -> new'" for each changed column, joined by ", "
RECURSIVE ChangesText(_, _, _, _)
ChangesText(S, id, k, sep) ==
    IF k > Len(AttendeeColumns) THEN ""
    ELSE IF k \notin ChangedColumns(S, id) THEN ChangesText(S, id, k + 1, sep)
    ELSE LET c == AttendeeColumns[k] IN
         sep \o c \o "='" \o TrackingRepr(c, S.orig[id][c]) \o " -> "
             \o TrackingRepr(c, S.obj[id][c]) \o "'" \o ChangesText(S, id, k + 1, ", ")

\* "column=value" for every column, joined by ", "
RECURSIVE ValuesText(_, _, _, _)
ValuesText(S, id, k, sep) ==
    IF k > Len(AttendeeColumns) THEN ""
    ELSE LET c == AttendeeColumns[k] IN
         sep \o c \o "=" \o TrackingRepr(c, S.obj[id][c]) \o ValuesText(S, id, k + 1, ", ")

\* C18: within a flush no Tracking entry exists before the adjustments
\* have all run, and the entries of the flush record the values the
\* adjustments left: a new attendee's entry has the badge_num the presave
\* adjustment gave it (PRE_CON) or the check-in it made (at the con), and
\* an attendee whose only change is a badge_num, as shift_badges makes
\* in an adjustment, has an AUTO_BADGE_SHIFT entry with that change in
\* this same flush.
C18_TrackingSeesAdjustedValues ==
    \A t \in Threads :
        /\ fpc[t] \in {"idle", "track"} => tracked[t] = <<>>
        /\ fpc[t] = "write" =>
              LET S == sess[t] IN
              /\ \A i \in S.new \cap AttendeeIds :
                    /\ (conf.PRE_CON /\ S.obj[i].paid # "NOT_PAID"
                           /\ S.obj[i].badge_type \in PREASSIGNED_BADGE_TYPES)
                         => S.obj[i].badge_num # 0
                    /\ (conf.PRE_CON /\ (S.obj[i].paid = "NOT_PAID"
                           \/ S.obj[i].badge_type \notin PREASSIGNED_BADGE_TYPES))
                         => S.obj[i].badge_num = 0
                    /\ (~conf.PRE_CON /\ S.obj[i].badge_num # 0) => S.obj[i].checked_in
                    /\ \E k \in EntriesFor(t, i) :
                          /\ tracked[t][k].action = "CREATED"
                          /\ tracked[t][k].data = ValuesText(S, i, 1, "")
              /\ \A j \in AttendeeIds \ (S.new \cup S.del) :
                    (/\ S.obj[j] # NoObj
                     /\ ChangedColumns(S, j) # {}
                     /\ \A k \in ChangedColumns(S, j) : AttendeeColumns[k] = "badge_num")
                    => \E k \in EntriesFor(t, j) :
                          /\ tracked[t][k].action = "AUTO_BADGE_SHIFT"
                          /\ tracked[t][k].data =
                                "badge_num='" \o ReprInt(S.orig[j].badge_num) \o " -> "
                                    \o ReprInt(S.obj[j].badge_num) \o "'"

\* A flush after one add and one delete: the new attendee's number and the
\* other attendee's new number were both given by the adjustments.
C18_Witness ==
    /\ fpc["t1"] = "write"
    /\ sess["t1"].ops = 2
    /\ sess["t1"].del # {}
    /\ \E i \in sess["t1"].new \cap AttendeeIds : sess["t1"].obj[i].badge_num # 0
    /\ \E j \in sess["t1"].mod \ sess["t1"].del :
          /\ sess["t1"].obj[j].badge_num # sess["t1"].orig[j].badge_num
          /\ \E k \in EntriesFor("t1", j) : tracked["t1"][k].action = "AUTO_BADGE_SHIFT"

\* C19: once the flush has tracked its dirty instances, an instance
\* with no changed column has no entry, one whose only changed column is
\* badge_num has one entry of action AUTO_BADGE_SHIFT, any other has one
\* entry of action UPDATED, and the data of the entry lists the changed
\* columns, and no other, as column='old -> new'.
C19_UpdatedEntryListsChanges ==
    \A t \in Threads : fpc[t] = "write" =>
        LET S == sess[t] IN
        \A id \in Dirty(S) \cap AttendeeIds :
            LET names == {AttendeeColumns[k] : k \in ChangedColumns(S, id)} IN
            IF names = {} THEN EntriesFor(t, id) = {}
            ELSE /\ Cardinality(EntriesFor(t, id)) = 1
                 /\ \A k \in EntriesFor(t, id) :
                       /\ tracked[t][k].action =
                             IF names = {"badge_num"} THEN "AUTO_BADGE_SHIFT" ELSE "UPDATED"
                       /\ tracked[t][k].data = ChangesText(S, id, 1, "")

\* A flush that tracks an instance with two changed columns, one whose only
\* change is its badge_num, and one that is dirty but changed nothing
C19_Witness ==
    /\ fpc["t1"] = "write"
    /\ \E id \in Dirty(sess["t1"]) \cap AttendeeIds :
          /\ Cardinality(ChangedColumns(sess["t1"], id)) >= 2
          /\ \E k \in EntriesFor("t1", id) : tracked["t1"][k].action = "UPDATED"
    /\ \E id \in Dirty(sess["t1"]) \cap AttendeeIds :
          \E k \in EntriesFor("t1", id) : tracked["t1"][k].action = "AUTO_BADGE_SHIFT"

\* C5: Session.initialize_db(modify_tables=True) is attempted at most 10
\* times, the loop gives up with the exception of the 10th failed attempt,
\* and no attempt follows a successful one.
C5_AtMostTenAttempts ==
    /\ attempts <= InitialTries
    /\ (ipc = "raised" /\ lastExc = "Exception") => attempts = InitialTries

\* C6: every execution of the startup loop eventually ends: initialised,
\* given up, or stopped.
C6_StartupTerminates == <>StartupTerminated

====
